---- MODULE Spec2Model ----
(***************************************************************************)
(* The CO2 dashboard of src/main.py as a state machine.                    *)
(*                                                                         *)
(* One session of the page: the script body (main) runs top to bottom, one *)
(* statement group per step, and runs again after every widget             *)
(* interaction.  The state is the CSV file, the memoized return value of   *)
(* get_data, the session state, the widget values the front end holds, the *)
(* locals of the run in progress and the charts and table put on the page. *)
(*                                                                         *)
(* Library calls are modelled by what they do for the arguments the code   *)
(* passes: read_csv gives every column a dtype and NaN for an empty cell,  *)
(* fillna(0) replaces every NaN, unique() keeps first appearances in       *)
(* order, a widget returns the value the front end holds for it or, when   *)
(* it was never shown, its default (selectbox: the first option; slider:   *)
(* min_value; radio: the first option; multiselect: its default list,      *)
(* which must consist of options or the call raises), and a function       *)
(* under st.cache_data hands every caller its own copy of the stored       *)
(* value.  A run is executed to its end (or to the exception that aborts   *)
(* it) before the next interaction is served.                              *)
(***************************************************************************)
EXTENDS Integers, Sequences, FiniteSets, TLC

VARIABLES
    file,           \* data/owid-co2-data.csv as read_csv parses it
    cache,          \* st.cache_data entry of get_data: <<>> or <<df, countries, variables>>
    session_state,  \* st.session_state: a function on the keys that are set
    widgets,        \* front-end widget values, keyed by widget label
    df_total,       \* main's local: the table of the latest run
    countries,      \* main's local, of the latest run
    variables,      \* main's local, of the latest run
    page,           \* elements built by this run, keyed by name
    pc,             \* position of the script run
    trigger,        \* the widget whose change started this run ("none": first run)
    first_call      \* <<countries, variables>> returned by the first get_data call

vars == <<file, cache, session_state, widgets, df_total, countries, variables,
          page, pc, trigger, first_call>>

----------------------------------------------------------------------------
(* Input tables *)

\* Number of years each input table covers (years 1..NumYears).
NumYears == 3

\* pandas' missing value in a numeric column, and in an object column.
NaN == -1
NaNStr == "nan"

Range(s) == {s[i] : i \in DOMAIN s}

\* The literal list of line 97.
MultiselectDefault == <<"United States", "China", "Russia", "Germany">>

\* Column orders of the input files: the numeric columns start with year,
\* start with co2, or do not contain co2.
Layouts ==
    { <<"country", "year", "iso_code", "co2", "gdp">>,
      <<"country", "iso_code", "co2", "year", "gdp">>,
      <<"country", "year", "iso_code", "gdp">> }

\* Country cells of the input files, in file order: the four default
\* countries of line 97, or a file without Russia.
NationLists ==
    { <<"United States", "China", "Russia", "Germany">>,
      <<"United States", "China", "Germany">> }

Dtype(col) == IF col \in {"country", "iso_code"} THEN "object"
              ELSE IF col = "year" THEN "int64" ELSE "float64"

\* Cell of column col in the row of the i-th nation and year y.  Some
\* iso_code, co2 and gdp cells are empty, and the value range differs by year.
Cell(col, nation, i, y) ==
    CASE col = "country"  -> nation
      [] col = "iso_code" -> IF i = 2 THEN NaNStr ELSE nation
      [] col = "year"     -> y
      [] col = "co2"      -> IF (i + y) % 3 = 0 THEN NaN ELSE i * y
      [] col = "gdp"      -> IF i = y THEN NaN ELSE i + y

\* read_csv: one row per (nation, year), nation-major.
ReadCsv(layout, nations) ==
    [ columns |-> layout,
      dtypes  |-> [c \in Range(layout) |-> Dtype(c)],
      rows    |-> [k \in 1..(Len(nations) * NumYears) |->
                     LET i == ((k - 1) \div NumYears) + 1
                         y == ((k - 1) % NumYears) + 1
                     IN [c \in Range(layout) |-> Cell(c, nations[i], i, y)]] ]

Files == {ReadCsv(l, n) : l \in Layouts, n \in NationLists}

----------------------------------------------------------------------------
(* pandas operations the script uses *)

is_numeric_dtype(df, col) == df.dtypes[col] \in {"int64", "float64"}

\* pd.isna of a cell of column col.
IsNa(df, col, v) == IF is_numeric_dtype(df, col) THEN v = NaN ELSE v = NaNStr

\* Series.unique(): the distinct values in order of first appearance.
RECURSIVE Unique(_)
Unique(s) ==
    IF s = <<>> THEN <<>>
    ELSE LET init == Unique(SubSeq(s, 1, Len(s) - 1))
             last == s[Len(s)]
         IN IF last \in Range(init) THEN init ELSE Append(init, last)

Column(df, col) == [k \in DOMAIN df.rows |-> df.rows[k][col]]

\* Series.min() / Series.max() of a column without missing cells.
ColMin(df, col) == CHOOSE m \in Range(Column(df, col)) :
                       \A v \in Range(Column(df, col)) : m <= v
ColMax(df, col) == CHOOSE m \in Range(Column(df, col)) :
                       \A v \in Range(Column(df, col)) : m >= v

\* df[df['year'] == y]
WhereYear(df, y) ==
    LET Test(r) == r["year"] = y
    IN [df EXCEPT !.rows = SelectSeq(df.rows, Test)]

\* df[df['country'].isin(c)]
WhereCountryIn(df, c) ==
    LET Test(r) == r["country"] \in c
    IN [df EXCEPT !.rows = SelectSeq(df.rows, Test)]

\* The filled value of a cell: the number 0 (shown as "0" in an object column).
Zero(df, col) == IF is_numeric_dtype(df, col) THEN 0 ELSE "0"

\* df.fillna(0): every missing cell of every column becomes 0.
FillNa_skip(df) == df
FillNa(df) ==
    [df EXCEPT !.rows =
        [k \in DOMAIN df.rows |->
            [c \in Range(df.columns) |->
                IF IsNa(df, c, df.rows[k][c]) THEN Zero(df, c) ELSE df.rows[k][c]]]]

----------------------------------------------------------------------------
(* Helpers for the keyed stores (session state, widget values, page) *)

Empty == [k \in {} |-> 0]

Put(f, k, v) == [x \in DOMAIN f \cup {k} |-> IF x = k THEN v ELSE f[x]]

\* What a widget call returns: the value the front end holds for the
\* widget, or the widget's default the first time it is shown.
Widget(label, default) ==
    IF label \in DOMAIN widgets THEN widgets[label] ELSE default

----------------------------------------------------------------------------
(* get_data, lines 11-31 *)

\* The body of get_data: the table, the unique countries, the numeric columns.
get_data(f) ==
    LET IsNumeric(col) == is_numeric_dtype(f, col)
    IN <<f, Unique(Column(f, "country")), SelectSeq(f.columns, IsNumeric)>>

\* The call of line 120 under @st.cache_data: the body runs when nothing is
\* stored, and the caller receives a copy of what is stored.
GetData_uncached ==
    /\ pc = "get_data"
    /\ cache' = get_data(file)
    /\ df_total' = cache'[1]
    /\ countries' = cache'[2]
    /\ variables' = cache'[3]
    /\ first_call' = IF Len(first_call) = 0 THEN <<cache'[2], cache'[3]>>
                     ELSE first_call
    /\ pc' = "fillna"
    /\ UNCHANGED <<file, session_state, widgets, page, trigger>>

GetData ==
    /\ pc = "get_data"
    /\ cache' = IF Len(cache) = 0 THEN get_data(file) ELSE cache
    /\ df_total' = cache'[1]
    /\ countries' = cache'[2]
    /\ variables' = cache'[3]
    /\ first_call' = IF Len(first_call) = 0 THEN <<cache'[2], cache'[3]>>
                     ELSE first_call
    /\ pc' = "fillna"
    /\ UNCHANGED <<file, session_state, widgets, page, trigger>>

----------------------------------------------------------------------------
(* main, lines 119-126 *)

default_variable_typo == "CO2"
default_variable == "co2"

\* Line 121: the fill is applied in place to the table get_data returned,
\* which is the caller's copy; the stored value is not touched.
Main_FillNa ==
    /\ pc = "fillna"
    /\ df_total' = FillNa(df_total)
    /\ pc' = "init_state"
    /\ UNCHANGED <<file, cache, session_state, widgets, countries, variables,
                   page, trigger, first_call>>

\* Line 124: the year a fresh session starts with.
DefaultYear_off(df) == ColMax(df, "year") + 1
DefaultYear(df) == ColMax(df, "year")

\* Lines 123-126: each key is set only when absent.
LazyInit_always(ss, df) ==
    Put(Put(ss, "year", DefaultYear(df)), "variable", default_variable)
LazyInit(ss, df) ==
    LET s1 == IF "year" \notin DOMAIN ss THEN Put(ss, "year", DefaultYear(df))
              ELSE ss
    IN IF "variable" \notin DOMAIN s1 THEN Put(s1, "variable", default_variable)
       ELSE s1

Main_InitState ==
    /\ pc = "init_state"
    /\ session_state' = LazyInit(session_state, df_total)
    /\ pc' = "set_column_1"
    /\ UNCHANGED <<file, cache, widgets, df_total, countries, variables, page,
                   trigger, first_call>>

----------------------------------------------------------------------------
(* set_column_1, lines 48-78 *)

\* Lines 51-52: both widget values are written to the session state.
StoreSelection_yearonly(ss, variable, year) == Put(ss, "year", year)
StoreSelection(ss, variable, year) ==
    Put(Put(ss, "variable", variable), "year", year)

\* Lines 54-68: the arguments both maps are built from (the entries that
\* depend on the data or the selection).
kwargs_yearrange(df, variable, year) ==
    [ data_frame  |-> WhereYear(df, year),
      color       |-> variable,
      size        |-> variable,
      range_color |-> <<ColMin(WhereYear(df, year), variable),
                        ColMax(WhereYear(df, year), variable)>> ]
kwargs(df, variable, year) ==
    [ data_frame  |-> WhereYear(df, year),
      color       |-> variable,
      size        |-> variable,
      range_color |-> <<ColMin(df, variable), ColMax(df, variable)>> ]

\* Line 70.
scatter_geo(kw) ==
    [ kind |-> "scatter_geo", data_frame |-> kw.data_frame, color |-> kw.color,
      size |-> kw.size, range_color |-> kw.range_color ]

\* Lines 72-73: the same arguments without 'size'.
choropleth(kw) ==
    [ kind |-> "choropleth", data_frame |-> kw.data_frame, color |-> kw.color,
      range_color |-> kw.range_color ]

MapStyles == <<"Scatter", "Choropleth">>

SetColumn1 ==
    /\ pc = "set_column_1"
    /\ LET first_year == ColMin(df_total, "year")
           last_year  == ColMax(df_total, "year")
           variable   == Widget("Select variable", variables[1])
           year       == Widget("Select year", first_year)
           ss         == StoreSelection(session_state, variable, year)
           kw         == kwargs(df_total, variable, ss["year"])
           fig1       == scatter_geo(kw)
           fig2       == choropleth(kw)
           map        == Widget("Choose the map style", MapStyles[1])
           fig        == IF map = "Scatter" THEN fig1 ELSE fig2
       IN /\ session_state' = ss
          /\ widgets' = Put(Put(Put(widgets, "Select variable", variable),
                                "Select year", year),
                            "Choose the map style", map)
          /\ page' = Put(Put(Put(page, "fig1", fig1), "fig2", fig2), "map", fig)
    /\ pc' = "set_column_2"
    /\ UNCHANGED <<file, cache, df_total, countries, variables, trigger,
                   first_call>>

----------------------------------------------------------------------------
(* set_column_2, lines 95-105 *)

\* Line 101.
line(df, variable, c) ==
    [ kind |-> "line", data_frame |-> WhereCountryIn(df, c), x |-> "year",
      y |-> variable, color |-> "country" ]

\* Lines 104-105.
TrendTable_allyears(df, year, c) == WhereCountryIn(df, c)
TrendTable(df, year, c) == WhereCountryIn(WhereYear(df, year), c)

\* Line 97 raises when a default is not among the options: the run ends
\* there and neither the chart nor the table is built.
SetColumn2 ==
    /\ pc = "set_column_2"
    /\ LET variable == session_state["variable"]
           c == Widget("Add a country:", Range(MultiselectDefault))
       IN IF Range(MultiselectDefault) \subseteq Range(countries)
          THEN /\ widgets' = Put(widgets, "Add a country:", c)
               /\ page' = Put(Put(page, "line", line(df_total, variable, c)),
                              "table",
                              TrendTable(df_total, session_state["year"], c))
               /\ pc' = "idle"
          ELSE /\ pc' = "error"
               /\ UNCHANGED <<widgets, page>>
    /\ UNCHANGED <<file, cache, session_state, df_total, countries, variables,
                   trigger, first_call>>

----------------------------------------------------------------------------
(* The user: changing a widget that is on the page starts a new run *)

Rerun(label, value) ==
    /\ pc \in {"idle", "error"}
    /\ label \in DOMAIN widgets
    /\ value # widgets[label]
    /\ widgets' = [widgets EXCEPT ![label] = value]
    /\ trigger' = label
    /\ page' = Empty
    /\ pc' = "get_data"
    /\ UNCHANGED <<file, cache, session_state, df_total, countries, variables,
                   first_call>>

\* The options and the slider range on the page are the ones the latest run
\* passed to the widgets (lines 49-52, 97).
SelectVariable ==
    /\ pc \in {"idle", "error"}
    /\ \E v \in Range(variables) : Rerun("Select variable", v)

SlideYear ==
    /\ pc \in {"idle", "error"}
    /\ \E y \in ColMin(df_total, "year")..ColMax(df_total, "year") :
           Rerun("Select year", y)

ChooseMapStyle == \E m \in Range(MapStyles) : Rerun("Choose the map style", m)

SelectCountries ==
    /\ pc \in {"idle", "error"}
    /\ \E c \in SUBSET Range(countries) : Rerun("Add a country:", c)

----------------------------------------------------------------------------
(* The environment: the CSV on disk is replaced while the process runs *)

FileReplaced ==
    /\ file' \in Files \ {file}
    /\ UNCHANGED <<cache, session_state, widgets, df_total, countries,
                   variables, page, pc, trigger, first_call>>

----------------------------------------------------------------------------

Init ==
    /\ file \in Files
    /\ cache = <<>>
    /\ session_state = Empty
    /\ widgets = Empty
    /\ df_total = <<>>
    /\ countries = <<>>
    /\ variables = <<>>
    /\ page = Empty
    /\ pc = "get_data"
    /\ trigger = "none"
    /\ first_call = <<>>

Next ==
    \/ GetData
    \/ Main_FillNa
    \/ Main_InitState
    \/ SetColumn1
    \/ SetColumn2
    \/ SelectVariable
    \/ SlideYear
    \/ ChooseMapStyle
    \/ SelectCountries
    \/ FileReplaced

Spec == Init /\ [][Next]_vars

----------------------------------------------------------------------------
(* Properties *)

\* The table the loader holds, and the lists it returns.
LoadedTable == cache[1]
LoaderVariables == Range(cache[3])

HasYear == "year" \in DOMAIN session_state
HasVariable == "variable" \in DOMAIN session_state

\* A run has ended without an exception and nothing has been changed since.
Rendered == pc = "idle"

\* C1: whenever the session state holds a year, it lies between the smallest
\* and the largest value of the year column of the loaded table.
C1_YearInRange ==
    HasYear =>
        /\ \E r \in Range(LoadedTable.rows) : r["year"] <= session_state["year"]
        /\ \E r \in Range(LoadedTable.rows) : r["year"] >= session_state["year"]

\* C1 witness: a run started by moving the slider has ended with a year
\* strictly inside the range.
C1_Witness ==
    /\ Rendered
    /\ trigger = "Select year"
    /\ session_state["year"] > ColMin(LoadedTable, "year")
    /\ session_state["year"] < ColMax(LoadedTable, "year")

\* C2 as stated: whenever the session state holds a variable, it is one of
\* the numeric columns the loader listed, for every input table.
C2_VariableIsNumericColumn ==
    HasVariable => session_state["variable"] \in LoaderVariables

\* C2 amended: the variable in the session state is one of the loader's
\* numeric columns once the dropdown has been evaluated, and in every state
\* when the table has a numeric column co2.
C2_VariableIsNumericColumnAmended ==
    (HasVariable /\ ("Select variable" \in DOMAIN widgets
                     \/ "co2" \in LoaderVariables))
        => session_state["variable"] \in LoaderVariables

\* C2 witness: right after the lazy initialization of the first run, before
\* the dropdown is evaluated, for a table whose numeric columns contain co2
\* but do not start with it.
C2_Witness ==
    /\ pc = "set_column_1"
    /\ trigger = "none"
    /\ "Select variable" \notin DOMAIN widgets
    /\ session_state["variable"] = "co2"
    /\ "co2" \in LoaderVariables
    /\ cache[3][1] # "co2"

\* C3: when the first run of a session has ended with no interaction, the
\* year of the session state, of the map and of the table is the largest
\* year of the table.
C3_FirstRenderYearIsMax ==
    (Rendered /\ trigger = "none") =>
        /\ session_state["year"] = ColMax(LoadedTable, "year")
        /\ \A r \in Range(page["fig1"].data_frame.rows) :
               r["year"] = ColMax(LoadedTable, "year")
        /\ \A r \in Range(page["table"].rows) :
               r["year"] = ColMax(LoadedTable, "year")

\* C4: when the first run of a session has ended with no interaction, on a
\* table with a numeric column co2, the variable of the session state, of
\* the maps and of the line chart is co2.
C4_FirstRenderVariableIsCo2 ==
    (Rendered /\ trigger = "none" /\ "co2" \in LoaderVariables) =>
        /\ session_state["variable"] = "co2"
        /\ page["fig1"].color = "co2"
        /\ page["fig2"].color = "co2"
        /\ page["line"].y = "co2"

\* C5: no step of a run started by another widget, and no interaction
\* itself, changes the variable or the year of the session state: the
\* variable changes only in the first run or a run started by the dropdown,
\* the year only in the first run or a run started by the slider.
C5_SelectionsPersist ==
    [][ /\ (HasVariable /\ trigger' \notin {"none", "Select variable"})
            => ("variable" \in DOMAIN session_state'
                /\ session_state'["variable"] = session_state["variable"])
        /\ (HasYear /\ trigger' \notin {"none", "Select year"})
            => ("year" \in DOMAIN session_state'
                /\ session_state'["year"] = session_state["year"]) ]_vars

\* C5 witness: a run started by the map-style toggle has ended, and the
\* session state holds a variable and a year that are not the widgets'
\* defaults nor the values of the lazy initialization.
C5_Witness ==
    /\ Rendered
    /\ trigger = "Choose the map style"
    /\ session_state["variable"] \notin {variables[1], default_variable}
    /\ session_state["year"] > ColMin(df_total, "year")
    /\ session_state["year"] < ColMax(df_total, "year")

\* C6: when a run has ended, the line chart plots the variable the maps are
\* coloured by, the table holds the rows of the maps' year, and both are
\* the values the dropdown and the slider hold.
C6_TrendSharesSelection ==
    Rendered =>
        /\ page["line"].y = page["fig1"].color
        /\ page["line"].y = page["fig2"].color
        /\ page["line"].y = widgets["Select variable"]
        /\ page["fig1"].data_frame = WhereYear(df_total, widgets["Select year"])
        /\ page["fig2"].data_frame = page["fig1"].data_frame
        /\ page["table"] =
               WhereCountryIn(page["fig1"].data_frame, widgets["Add a country:"])

\* C6 witness: a run started by the dropdown has ended with a variable and
\* a year that differ from the defaults the first run showed.
C6_Witness ==
    /\ Rendered
    /\ trigger = "Select variable"
    /\ page["line"].y = "gdp"
    /\ page["fig1"].color = "gdp"
    /\ widgets["Select year"] = ColMax(df_total, "year")

\* C7: the two maps built in a run have the same colour range, whose ends
\* are the smallest and the largest value of the variable over all rows of
\* the run's table.
C7_SharedColorRange ==
    ("fig1" \in DOMAIN page /\ "fig2" \in DOMAIN page) =>
        LET range == page["fig1"].range_color
            cells == Range(Column(df_total, page["fig1"].color))
        IN /\ page["fig2"].range_color = range
           /\ page["fig2"].color = page["fig1"].color
           /\ range[1] \in cells
           /\ range[2] \in cells
           /\ \A v \in cells : range[1] <= v /\ v <= range[2]

\* C7 witness: maps whose year has neither the smallest nor the largest
\* value of the variable, so the range of the year's rows is a strictly
\* narrower one.
C7_Witness ==
    /\ "fig1" \in DOMAIN page
    /\ "fig2" \in DOMAIN page
    /\ LET shown == Range(Column(page["fig1"].data_frame, page["fig1"].color))
       IN \A v \in shown : /\ v > page["fig1"].range_color[1]
                           /\ v < page["fig1"].range_color[2]

\* The countries the multiselect holds.
Selected == widgets["Add a country:"]

\* C8: when a run has ended, the table holds exactly the rows of the
\* selected year and the selected countries; an empty selection never ends
\* a run in an exception, and gives an empty table and an empty line chart.
C8_TrendTableRows ==
    /\ Rendered =>
        /\ Range(page["table"].rows) =
               {r \in Range(df_total.rows) :
                    r["year"] = session_state["year"] /\ r["country"] \in Selected}
        /\ Len(page["table"].rows) = Cardinality(Range(page["table"].rows))
    /\ ("Add a country:" \in DOMAIN widgets /\ Selected = {}) =>
        /\ pc # "error"
        /\ Rendered => /\ page["table"].rows = <<>>
                       /\ page["line"].data_frame.rows = <<>>

\* C8 witness: a run started by clearing the multiselect has ended.
C8_Witness ==
    /\ Rendered
    /\ trigger = "Add a country:"
    /\ Selected = {}

\* The rows an element of the page shows.
ShownRows(name) ==
    IF name = "table" THEN Range(page[name].rows)
    ELSE Range(page[name].data_frame.rows)

\* C9: no row of any map, line chart or table on the page has a missing
\* cell in a numeric column.
C9_NoMissingNumericCell ==
    \A name \in DOMAIN page :
        \A r \in ShownRows(name) :
            \A c \in Range(variables) : r[c] # NaN

\* C9 witness: a later run has ended and its table shows a row that has a
\* missing numeric cell in the loader's table.
C9_Witness ==
    /\ Rendered
    /\ trigger # "none"
    /\ \E k \in DOMAIN LoadedTable.rows :
           /\ \E c \in LoaderVariables : LoadedTable.rows[k][c] = NaN
           /\ df_total.rows[k] \in Range(page["table"].rows)

\* C10: the country list and the variable list every call of the loader
\* returns are the ones its first call returned.
C10_LoaderListsStable ==
    Len(first_call) > 0 => (countries = first_call[1] /\ variables = first_call[2])

\* C10 witness: a later run has ended after the file on disk was replaced
\* by one with other columns and other countries.
C10_Witness ==
    /\ Rendered
    /\ trigger # "none"
    /\ file.columns # LoadedTable.columns
    /\ Len(file.rows) # Len(LoadedTable.rows)

====
